---- MODULE Spec2Model ----
(***************************************************************************)
(* Model of bevy_reflect's func::args::Arg (crates/bevy_reflect/src/func/  *)
(* args/arg.rs): an argument cell pairing a type-erased value, held in one *)
(* of three ownership categories, with its position in the call.           *)
(*                                                                         *)
(* A type-erased value (dyn PartialReflect) is a record [ty, val]: its     *)
(* runtime type and its bits.  Values borrowed by a Ref or Mut argument    *)
(* live in `store`, the memory of their owners, and are named by their     *)
(* location; an Owned argument carries its value in its own box.           *)
(***************************************************************************)
EXTENDS Integers, Sequences, FiniteSets, TLC

\* Bounds of the model.
MaxIndex == 2      \* argument positions are 0..MaxIndex
MaxVal   == 1      \* the bits of a value are 0..MaxVal
NumLoc   == 2      \* owner-held values that can be borrowed

VARIABLES
    store,      \* Loc -> [ty, val]: the values held by their owners
    arg,        \* the cell: [index, value], or Moved once taken by value
    result,     \* what the consuming operation returned
    op,         \* the last operation performed on the cell
    seen,       \* what the last read-only inspection or read returned
    base,       \* history: the cell as constructed, index as last reassigned
    inspected,  \* history: index() or value() has been called
    reindexed,  \* history: set_index() has been called
    written     \* history: last bits written through a &mut result, or -1

vars == <<store, arg, result, op, seen, base, inspected, reindexed, written>>

----------------------------------------------------------------------------
\* Domains

TypeId    == {"U32", "Bool"}
Ownership == {"Owned", "Ref", "Mut"}
Indices   == 0..MaxIndex
Val       == 0..MaxVal
Loc       == 1..NumLoc
DynValue  == [ty : TypeId, val : Val]

\* enum ArgValue<'a> { Owned(Box<dyn PartialReflect>), Ref(&'a dyn ..), Mut(&'a mut dyn ..) }
ArgValue ==
    [cat : {"Owned"}, boxed : DynValue]
      \cup [cat : {"Ref"}, loc : Loc]
      \cup [cat : {"Mut"}, loc : Loc]

\* Arg::new
ArgNew(index, value) == [index |-> index, value |-> value]

\* A cell that has been passed by value (self) to a consuming method.
Moved == [moved |-> TRUE]

----------------------------------------------------------------------------
\* The reflection capabilities the cell relies on.

\* T::type_path(): the name of a statically known type.
type_path(T) ==
    CASE T = "U32"    -> "u32"
      [] T = "Bool"   -> "bool"

\* PartialReflect::reflect_type_path(): the name of a value's runtime type.
reflect_type_path(d) == type_path(d.ty)

\* Box<dyn PartialReflect>::try_take::<T>(): Ok(the value as a T), or Err(the box).
try_take(d, T) ==
    IF d.ty = T THEN [ok |-> TRUE, val |-> [ty |-> T, val |-> d.val]]
                ELSE [ok |-> FALSE, err |-> d]

\* <dyn PartialReflect>::try_downcast_ref::<T>(): Some(the same borrow, as &T) or None.
try_downcast_ref(l, T) ==
    IF store[l].ty = T THEN [some |-> TRUE, loc |-> l] ELSE [some |-> FALSE]

\* <dyn PartialReflect>::try_downcast_mut::<T>(): Some(the same borrow, as &mut T) or None.
try_downcast_mut(l, T) ==
    IF store[l].ty = T THEN [some |-> TRUE, loc |-> l] ELSE [some |-> FALSE]

----------------------------------------------------------------------------
\* Results

OkOwned(v) == [kind |-> "Ok", form |-> "Owned", val |-> v]
OkRef(l)   == [kind |-> "Ok", form |-> "Ref", loc |-> l]
OkMut(l)   == [kind |-> "Ok", form |-> "Mut", loc |-> l]

\* ArgError::InvalidOwnership { index, expected, received }
InvalidOwnership(i, e, r) ==
    [kind |-> "InvalidOwnership", index |-> i, expected |-> e, received |-> r]

\* ArgError::UnexpectedType { index, expected, received }
UnexpectedType(i, e, r) ==
    [kind |-> "UnexpectedType", index |-> i, expected |-> e, received |-> r]

NoResult == [kind |-> "None"]

----------------------------------------------------------------------------
\* impl Deref for ArgValue: the uniform read-only view.
deref(v) ==
    CASE v.cat = "Owned" -> v.boxed
      [] v.cat = "Ref"   -> store[v.loc]
      [] v.cat = "Mut"   -> store[v.loc]

----------------------------------------------------------------------------
\* The specific takes, as functions of the cell taken and the requested type.

\* Variant: a successful owned take hands back a default value of T.
take_owned_default(a, T) ==
    CASE a.value.cat = "Owned" ->
           LET r == try_take(a.value.boxed, T) IN
           IF r.ok THEN OkOwned([ty |-> T, val |-> 0])
           ELSE UnexpectedType(a.index, type_path(T), reflect_type_path(r.err))
      [] a.value.cat = "Ref" -> InvalidOwnership(a.index, "Owned", "Ref")
      [] a.value.cat = "Mut" -> InvalidOwnership(a.index, "Owned", "Mut")

\* Variant: the type of the stored value is checked before its category.
take_owned_type_first(a, T) ==
    IF deref(a.value).ty # T
    THEN UnexpectedType(a.index, type_path(T), reflect_type_path(deref(a.value)))
    ELSE CASE a.value.cat = "Owned" -> OkOwned(try_take(a.value.boxed, T).val)
           [] a.value.cat = "Ref" -> InvalidOwnership(a.index, "Owned", "Ref")
           [] a.value.cat = "Mut" -> InvalidOwnership(a.index, "Owned", "Mut")

\* Variant: the two borrowed categories are reported the wrong way round.
take_owned_swapped(a, T) ==
    CASE a.value.cat = "Owned" ->
           LET r == try_take(a.value.boxed, T) IN
           IF r.ok THEN OkOwned(r.val)
           ELSE UnexpectedType(a.index, type_path(T), reflect_type_path(r.err))
      [] a.value.cat = "Ref" -> InvalidOwnership(a.index, "Owned", "Mut")
      [] a.value.cat = "Mut" -> InvalidOwnership(a.index, "Owned", "Ref")

\* Arg::take_owned::<T>
take_owned(a, T) ==
    CASE a.value.cat = "Owned" ->
           LET r == try_take(a.value.boxed, T) IN
           IF r.ok THEN OkOwned(r.val)
           ELSE UnexpectedType(a.index, type_path(T), reflect_type_path(r.err))
      [] a.value.cat = "Ref" -> InvalidOwnership(a.index, "Owned", "Ref")
      [] a.value.cat = "Mut" -> InvalidOwnership(a.index, "Owned", "Mut")

\* Variant: a mutable borrow is accepted where a shared one is asked for.
take_ref_coerce(a, T) ==
    CASE a.value.cat = "Owned" -> InvalidOwnership(a.index, "Ref", "Owned")
      [] a.value.cat \in {"Ref", "Mut"} ->
           LET r == try_downcast_ref(a.value.loc, T) IN
           IF r.some THEN OkRef(r.loc)
           ELSE UnexpectedType(a.index, type_path(T),
                               reflect_type_path(store[a.value.loc]))

\* Arg::take_ref::<T>
take_ref(a, T) ==
    CASE a.value.cat = "Owned" -> InvalidOwnership(a.index, "Ref", "Owned")
      [] a.value.cat = "Ref" ->
           LET r == try_downcast_ref(a.value.loc, T) IN
           IF r.some THEN OkRef(r.loc)
           ELSE UnexpectedType(a.index, type_path(T),
                               reflect_type_path(store[a.value.loc]))
      [] a.value.cat = "Mut" -> InvalidOwnership(a.index, "Ref", "Mut")

\* Variant: the expected category was copied from take_ref.
take_mut_expected_ref(a, T) ==
    CASE a.value.cat = "Owned" -> InvalidOwnership(a.index, "Ref", "Owned")
      [] a.value.cat = "Ref"   -> InvalidOwnership(a.index, "Ref", "Ref")
      [] a.value.cat = "Mut" ->
           LET received == reflect_type_path(store[a.value.loc])
               r == try_downcast_mut(a.value.loc, T) IN
           IF r.some THEN OkMut(r.loc)
           ELSE UnexpectedType(a.index, type_path(T), received)

\* Variant: the type mismatch reports the requested type as received.
take_mut_received_requested(a, T) ==
    CASE a.value.cat = "Owned" -> InvalidOwnership(a.index, "Mut", "Owned")
      [] a.value.cat = "Ref"   -> InvalidOwnership(a.index, "Mut", "Ref")
      [] a.value.cat = "Mut" ->
           LET r == try_downcast_mut(a.value.loc, T) IN
           IF r.some THEN OkMut(r.loc)
           ELSE UnexpectedType(a.index, type_path(T), type_path(T))

\* Variant: the result borrows some other value than the one the cell held.
take_mut_other(a, T) ==
    CASE a.value.cat = "Owned" -> InvalidOwnership(a.index, "Mut", "Owned")
      [] a.value.cat = "Ref"   -> InvalidOwnership(a.index, "Mut", "Ref")
      [] a.value.cat = "Mut" ->
           LET received == reflect_type_path(store[a.value.loc])
               r == try_downcast_mut(a.value.loc, T) IN
           IF r.some THEN OkMut(CHOOSE l \in Loc : l # r.loc)
           ELSE UnexpectedType(a.index, type_path(T), received)

\* Arg::take_mut::<T>
take_mut(a, T) ==
    CASE a.value.cat = "Owned" -> InvalidOwnership(a.index, "Mut", "Owned")
      [] a.value.cat = "Ref"   -> InvalidOwnership(a.index, "Mut", "Ref")
      [] a.value.cat = "Mut" ->
           LET received == reflect_type_path(store[a.value.loc])
               r == try_downcast_mut(a.value.loc, T) IN
           IF r.some THEN OkMut(r.loc)
           ELSE UnexpectedType(a.index, type_path(T), received)

\* FromArg::from_arg for the three extractable shapes T, &T and &mut T: the
\* requested shape F fixes the category the cell must hold; the category is
\* checked first, then the runtime type of the stored value.
from_arg(F, T, a) ==
    IF a.value.cat # F THEN InvalidOwnership(a.index, F, a.value.cat)
    ELSE IF deref(a.value).ty # T
         THEN UnexpectedType(a.index, type_path(T), reflect_type_path(deref(a.value)))
         ELSE CASE F = "Owned" -> OkOwned(a.value.boxed)
                [] F = "Ref"   -> OkRef(a.value.loc)
                [] F = "Mut"   -> OkMut(a.value.loc)

\* Arg::take::<T>
take(F, T, a) == from_arg(F, T, a)

----------------------------------------------------------------------------
\* The non-generic accessors, as functions of the cell.

\* Arg::index
index(a) == a.index

\* Variant: the new index is dropped.
set_index_noop(a, i) == a

\* Arg::set_index
set_index(a, i) == [a EXCEPT !.index = i]

\* Arg::value
value(a) == a.value

\* Arg::take_value
take_value(a) == [kind |-> "ArgValue", value |-> a.value]

----------------------------------------------------------------------------
\* The state machine: one cell, from its construction to its consumption and
\* the use of what was extracted from it.

Op(n, F, T) == [name |-> n, form |-> F, T |-> T]

TakeOps == {"take", "take_owned", "take_ref", "take_mut", "take_value"}

\* Arg::new(index, value), over every value the collector can supply.
Init ==
    /\ store \in [Loc -> DynValue]
    /\ \E i \in Indices, v \in ArgValue : arg = ArgNew(i, v)
    /\ base = arg
    /\ result = NoResult
    /\ op = Op("new", "-", "-")
    /\ seen = [what |-> "none"]
    /\ inspected = FALSE
    /\ reindexed = FALSE
    /\ written = -1

\* arg.set_index(i), by the containing collector.
CallSetIndex(i) ==
    /\ arg # Moved
    /\ arg' = set_index(arg, i)
    /\ base' = [base EXCEPT !.index = i]
    /\ op' = Op("set_index", "-", "-")
    /\ reindexed' = TRUE
    /\ UNCHANGED <<store, result, seen, inspected, written>>

\* Variant: reading the index renumbers the cell.
CallIndexBump ==
    /\ arg # Moved
    /\ seen' = [what |-> "index", index |-> index(arg)]
    /\ arg' = [arg EXCEPT !.index = (@ + 1) % (MaxIndex + 1)]
    /\ op' = Op("index", "-", "-")
    /\ inspected' = TRUE
    /\ UNCHANGED <<store, result, base, reindexed, written>>

\* arg.index()
CallIndex ==
    /\ arg # Moved
    /\ seen' = [what |-> "index", index |-> index(arg)]
    /\ op' = Op("index", "-", "-")
    /\ inspected' = TRUE
    /\ UNCHANGED <<store, arg, result, base, reindexed, written>>

\* arg.value(), and a look at the value through Deref.
CallValue ==
    /\ arg # Moved
    /\ seen' = [what  |-> "value",
                value |-> value(arg),
                view  |-> deref(value(arg)),
                path  |-> reflect_type_path(deref(value(arg)))]
    /\ op' = Op("value", "-", "-")
    /\ inspected' = TRUE
    /\ UNCHANGED <<store, arg, result, base, reindexed, written>>

\* Variant: the raw take leaves the cell with its caller.
CallTakeValueKeep ==
    /\ arg # Moved
    /\ result' = take_value(arg)
    /\ op' = Op("take_value", "-", "-")
    /\ UNCHANGED <<store, arg, seen, base, inspected, reindexed, written>>

\* arg.take_value(): self is passed by value.
CallTakeValue ==
    /\ arg # Moved
    /\ result' = take_value(arg)
    /\ arg' = Moved
    /\ op' = Op("take_value", "-", "-")
    /\ UNCHANGED <<store, seen, base, inspected, reindexed, written>>

\* arg.take::<T>(), arg.take::<&T>() or arg.take::<&mut T>(), by the shape F.
CallTake(F, T) ==
    /\ arg # Moved
    /\ result' = take(F, T, arg)
    /\ arg' = Moved
    /\ op' = Op("take", F, T)
    /\ UNCHANGED <<store, seen, base, inspected, reindexed, written>>

\* arg.take_owned::<T>()
CallTakeOwned(T) ==
    /\ arg # Moved
    /\ result' = take_owned(arg, T)
    /\ arg' = Moved
    /\ op' = Op("take_owned", "Owned", T)
    /\ UNCHANGED <<store, seen, base, inspected, reindexed, written>>

\* arg.take_ref::<T>()
CallTakeRef(T) ==
    /\ arg # Moved
    /\ result' = take_ref(arg, T)
    /\ arg' = Moved
    /\ op' = Op("take_ref", "Ref", T)
    /\ UNCHANGED <<store, seen, base, inspected, reindexed, written>>

\* arg.take_mut::<T>()
CallTakeMut(T) ==
    /\ arg # Moved
    /\ result' = take_mut(arg, T)
    /\ arg' = Moved
    /\ op' = Op("take_mut", "Mut", T)
    /\ UNCHANGED <<store, seen, base, inspected, reindexed, written>>

\* *r, for the &'a T or &'a mut T that a take returned.
ReadThrough ==
    /\ result.kind = "Ok"
    /\ result.form \in {"Ref", "Mut"}
    /\ seen' = [what |-> "read", view |-> store[result.loc]]
    /\ UNCHANGED <<store, arg, result, op, base, inspected, reindexed, written>>

\* *r = v, for the &'a mut T that a take returned.
WriteThrough(v) ==
    /\ result.kind = "Ok"
    /\ result.form = "Mut"
    /\ store' = [store EXCEPT ![result.loc].val = v]
    /\ written' = v
    /\ UNCHANGED <<arg, result, op, seen, base, inspected, reindexed>>

Next ==
    \/ \E i \in Indices : CallSetIndex(i)
    \/ CallIndex
    \/ CallValue
    \/ CallTakeValue
    \/ \E F \in Ownership, T \in TypeId : CallTake(F, T)
    \/ \E T \in TypeId : CallTakeOwned(T)
    \/ \E T \in TypeId : CallTakeRef(T)
    \/ \E T \in TypeId : CallTakeMut(T)
    \/ ReadThrough
    \/ \E v \in Val : WriteThrough(v)

Spec == Init /\ [][Next]_vars

----------------------------------------------------------------------------
\* Properties.  `base` is the cell as the collector built it, renumbered by
\* every set_index; properties state what an operation returned in terms of it.

IsError(r) == r.kind \in {"InvalidOwnership", "UnexpectedType"}

\* The value a cell's ArgValue stands for: its own box, or the owner's value.
Stored(v) == IF v.cat = "Owned" THEN v.boxed ELSE store[v.loc]

\* C1: take_owned::<T>() on an Owned cell holding a value v of runtime type T
\* returns Ok(v), the value the cell was built from, unchanged.
C1_OwnedRoundTrip ==
    (op.name = "take_owned" /\ base.value.cat = "Owned"
        /\ base.value.boxed.ty = op.T)
    => result = OkOwned(base.value.boxed)

C1_Witness ==
    /\ op.name = "take_owned"
    /\ base.value.cat = "Owned"
    /\ base.value.boxed = [ty |-> op.T, val |-> MaxVal]
    /\ result.kind = "Ok"

\* C2: take_owned::<T>() on a Ref or Mut cell returns InvalidOwnership with
\* expected = Owned and received = the cell's category, never UnexpectedType,
\* whether or not the stored value's runtime type is T.
C2_OwnedOnBorrowIsOwnershipError ==
    (op.name = "take_owned" /\ base.value.cat \in {"Ref", "Mut"})
    => /\ result.kind = "InvalidOwnership"
       /\ result.expected = "Owned"
       /\ result.received = base.value.cat
       /\ result.kind # "UnexpectedType"

C2_Witness ==
    /\ op.name = "take_owned"
    /\ base.value.cat = "Mut"
    /\ store[base.value.loc].ty # op.T
    /\ result.kind = "InvalidOwnership"

\* C3: take_ref::<T>() returns Ok only on a Ref cell; on a Ref cell whose value
\* has runtime type T it returns a reference to that same borrowed value; on an
\* Owned or Mut cell it returns InvalidOwnership, expected = Ref, received =
\* the cell's category.
C3_TakeRef ==
    op.name = "take_ref"
    => /\ result.kind = "Ok" => base.value.cat = "Ref"
       /\ (base.value.cat = "Ref" /\ store[base.value.loc].ty = op.T)
            => result = OkRef(base.value.loc)
       /\ base.value.cat \in {"Owned", "Mut"}
            => /\ result.kind = "InvalidOwnership"
               /\ result.expected = "Ref"
               /\ result.received = base.value.cat

C3_Witness ==
    /\ op.name = "take_ref"
    /\ base.value.cat = "Mut"
    /\ store[base.value.loc].ty = op.T
    /\ result.kind = "InvalidOwnership"

\* C4: take_mut::<T>() returns Ok only on a Mut cell; on an Owned or Ref cell
\* it returns InvalidOwnership, expected = Mut, received = the cell's category,
\* also when the stored type differs from T.
C4_TakeMutMismatch ==
    op.name = "take_mut"
    => /\ result.kind = "Ok" => base.value.cat = "Mut"
       /\ base.value.cat \in {"Owned", "Ref"}
            => /\ result.kind = "InvalidOwnership"
               /\ result.expected = "Mut"
               /\ result.received = base.value.cat

C4_Witness ==
    /\ op.name = "take_mut"
    /\ base.value.cat = "Owned"
    /\ base.value.boxed.ty # op.T
    /\ result.kind = "InvalidOwnership"

\* C5: for take_owned, take_ref and take_mut, a cell of the matching category
\* whose stored runtime type differs from T gives UnexpectedType with expected
\* = the type name of T and received = the type name of the stored value's
\* runtime type (not a category, not the requested type).
C5_TypeMismatch ==
    (op.name \in {"take_owned", "take_ref", "take_mut"}
        /\ base.value.cat = op.form
        /\ Stored(base.value).ty # op.T)
    => /\ result.kind = "UnexpectedType"
       /\ result.expected = type_path(op.T)
       /\ result.received = type_path(Stored(base.value).ty)
       /\ result.received \notin Ownership
       /\ result.received # type_path(op.T)

C5_Witness ==
    /\ op.name = "take_mut"
    /\ base.value.cat = "Mut"
    /\ store[base.value.loc].ty = "Bool"
    /\ op.T = "U32"
    /\ result.kind = "UnexpectedType"
    /\ result.received = "bool"

\* C6: every error of take_owned, take_ref or take_mut carries the cell's
\* current index: the one given to Arg::new or to the last set_index.
C6_ErrorIndex ==
    (op.name \in {"take_owned", "take_ref", "take_mut"} /\ IsError(result))
    => result.index = base.index

C6_Witness ==
    /\ op.name \in {"take_owned", "take_ref", "take_mut"}
    /\ reindexed
    /\ result.kind = "UnexpectedType"
    /\ result.index = MaxIndex

\* C7: every take consumes the cell, whether it succeeds or fails, and no
\* operation is performed on a cell once it has been taken.
C7_SingleConsumption ==
    /\ [](op.name \in TakeOps => arg = Moved)
    /\ [][arg = Moved => (arg' = Moved /\ op' = op /\ result' = result)]_vars

C7_Witness ==
    /\ arg = Moved
    /\ op.name \in TakeOps
    /\ IsError(result)

\* C8: take_mut::<T>() on a Mut cell whose value has runtime type T returns a
\* mutable reference to the borrowed value itself: a read through it gives the
\* owner's value and a write through it changes the owner's value.
C8_TakeMutAliasesOwner ==
    (op.name = "take_mut" /\ base.value.cat = "Mut"
        /\ store[base.value.loc].ty = op.T)
    => /\ result = OkMut(base.value.loc)
       /\ (seen.what = "read" /\ written = -1)
            => seen.view = store[base.value.loc]
       /\ written # -1 => store[base.value.loc].val = written

C8_Witness ==
    /\ op.name = "take_mut"
    /\ base.value.cat = "Mut"
    /\ result.kind = "Ok"
    /\ written = MaxVal
    /\ store[base.value.loc].val = MaxVal

\* The result of the specific take for the shape F.
SpecificTake(F, T, a) ==
    CASE F = "Owned" -> take_owned(a, T)
      [] F = "Ref"   -> take_ref(a, T)
      [] F = "Mut"   -> take_mut(a, T)

\* C9: take::<T>(), take::<&T>() and take::<&mut T>() return what
\* take_owned::<T>(), take_ref::<T>() and take_mut::<T>() return on the same
\* cell: the same Ok value or the identical error.
C9_GenericTakeIsSpecificTake ==
    op.name = "take" => result = SpecificTake(op.form, op.T, base)

C9_Witness ==
    /\ op.name = "take"
    /\ op.form = "Ref"
    /\ base.value.cat = "Mut"
    /\ result = InvalidOwnership(base.index, "Ref", "Mut")

\* What the take recorded in o returns on the cell a.
TakeResult(o, a) ==
    CASE o.name = "take"       -> take(o.form, o.T, a)
      [] o.name = "take_owned" -> take_owned(a, o.T)
      [] o.name = "take_ref"   -> take_ref(a, o.T)
      [] o.name = "take_mut"   -> take_mut(a, o.T)
      [] o.name = "take_value" -> take_value(a)

\* C10: index() and value() leave the cell, its index, category and payload as
\* they were; value() shows the underlying value and its runtime type name for
\* every category; a take after any number of them returns what it would have
\* returned without them.
C10_InspectionIsReadOnly ==
    /\ [][op'.name \in {"index", "value"} => (arg' = arg /\ store' = store)]_vars
    /\ [](arg # Moved => arg = base)
    /\ [](op.name = "index" => seen = [what |-> "index", index |-> base.index])
    /\ [](op.name = "value" =>
            /\ seen.value = base.value
            /\ seen.view = Stored(base.value)
            /\ seen.path = type_path(Stored(base.value).ty))
    /\ []((inspected /\ op.name \in TakeOps) => result = TakeResult(op, base))

C10_Witness ==
    /\ inspected
    /\ seen.what = "value"
    /\ op.name \in TakeOps
    /\ result.kind = "Ok"

====
